---------------------------- MODULE Spec2Model ----------------------------
(***************************************************************************)
(* Genre aggregation and lift pipeline of spotify-genre-analyzer:           *)
(*   build_genre_comparison_30d.py  (windowed vs all-time comparison)       *)
(*   build_genre_summary.py         (all-time genre frequency)              *)
(* run over the three tables fetch_spotify_data.py leaves in                *)
(* data/processed.                                                          *)
(*                                                                          *)
(* Values are modelled as Python/pandas objects with a tag:                 *)
(*   [tag |-> "nan"]                      NaN / None (a missing cell)       *)
(*   [tag |-> "str",  val |-> "rock"]     a str that is a genre name        *)
(*   [tag |-> "text", val |-> tokens]     a str read from a CSV cell, as    *)
(*                                        the sequence of its lexical tokens*)
(*   [tag |-> "list", items |-> seq]      a Python list                     *)
(*   [tag |-> "num",  val |-> x]          a number (x an integer or a       *)
(*                                        ratio [n |-> _, d |-> _])         *)
(* Ratios are exact: floating-point rounding is not modelled.               *)
(* Timestamps are whole days.                                               *)
(***************************************************************************)
EXTENDS Integers, Sequences, FiniteSets

VARIABLES
    recent,        \* data/processed/recently_played.csv : [exists, rows]
    saved,         \* data/processed/saved_tracks.csv    : [exists, rows]
    genres,        \* data/processed/artist_genres.csv   : [exists, rows]
    phase,         \* "fetch": tables are being produced; "analyze": pipelines run
    compare_out,   \* data/processed/genre_compare_30d.csv : [exists, columns, rows]
    summary_out,   \* data/processed/genre_summary.csv     : [exists, columns, rows]
    compare_run,   \* outcome of the last run of build_genre_comparison_30d.main
    summary_run,   \* outcome of the last run of build_genre_summary.main
    genre_field,   \* a value of the genres column handed to to_list
    normalized     \* what the successive applications of to_list to it returned

vars == <<recent, saved, genres, phase, compare_out, summary_out, compare_run, summary_run,
          genre_field, normalized>>

-----------------------------------------------------------------------------
(* Bounds of the model *)

MaxRecent == 2     \* rows of recently_played.csv
MaxSaved  == 1     \* rows of saved_tracks.csv
MaxGenres == 2     \* rows of artist_genres.csv
MaxTokens == 3     \* tokens of the text of a genres cell
MaxItems  == 2     \* genres of a genre sequence handed to to_list

(* timedelta(days=30) *)
WindowDays == 30

-----------------------------------------------------------------------------
(* Python / pandas values *)

NaN == [tag |-> "nan"]

Str(s) == [tag |-> "str", val |-> s]

Text(toks) == [tag |-> "text", val |-> toks]

List(items) == [tag |-> "list", items |-> items]

Num(x) == [tag |-> "num", val |-> x]

(* Tokens of the text of a CSV cell *)
LBR == [t |-> "["]

RBR == [t |-> "]"]

COMMA == [t |-> ","]

(* a string literal; adjacent string literals, which Python joins into one,
   are one token *)
StrLit(s) == [t |-> "strlit", val |-> s]

(* a number literal *)
NumLit(n) == [t |-> "numlit", val |-> n]

(* a name: None, or a bare word *)
NameTok(s) == [t |-> "name", val |-> s]

(* repr() of a list of str, as DataFrame.to_csv writes a list cell:
   "['rock', 'jazz']" *)
RECURSIVE ReprItems(_)
ReprItems(items) ==
    IF Len(items) = 0 THEN <<>>
    ELSE IF Len(items) = 1 THEN <<StrLit(items[1].val)>>
    ELSE <<StrLit(items[1].val), COMMA>> \o ReprItems(Tail(items))

Repr(items) == Text(<<LBR>> \o ReprItems(items) \o <<RBR>>)

(* ast.literal_eval over the tokens of a text.  A value is a string literal,
   a number literal, None, or a list display [value, value, ...] with an
   optional trailing comma; anything else raises.  The operators return
   [ok |-> TRUE, v |-> value, rest |-> the tokens left] or [ok |-> FALSE]. *)
RECURSIVE EvalValue(_), EvalElems(_, _)
EvalValue(toks) ==
    IF Len(toks) = 0 THEN [ok |-> FALSE]
    ELSE IF toks[1].t = "strlit"
    THEN [ok |-> TRUE, v |-> Str(toks[1].val), rest |-> Tail(toks)]
    ELSE IF toks[1].t = "numlit"
    THEN [ok |-> TRUE, v |-> Num(toks[1].val), rest |-> Tail(toks)]
    ELSE IF toks[1].t = "name"
    THEN IF toks[1].val = "None"
         THEN [ok |-> TRUE, v |-> NaN, rest |-> Tail(toks)]
         ELSE [ok |-> FALSE]
    ELSE IF toks[1].t = "[" THEN EvalElems(Tail(toks), <<>>)
    ELSE [ok |-> FALSE]

(* the elements of a list display after its "[" or after a comma, items being
   the elements read so far *)
EvalElems(toks, items) ==
    IF Len(toks) = 0 THEN [ok |-> FALSE]
    ELSE IF toks[1].t = "]"
    THEN [ok |-> TRUE, v |-> List(items), rest |-> Tail(toks)]
    ELSE LET e == EvalValue(toks)
         IN  IF ~e.ok THEN [ok |-> FALSE]
             ELSE IF Len(e.rest) = 0 THEN [ok |-> FALSE]
             ELSE IF e.rest[1].t = "]"
             THEN [ok |-> TRUE, v |-> List(Append(items, e.v)), rest |-> Tail(e.rest)]
             ELSE IF e.rest[1].t = ","
             THEN EvalElems(Tail(e.rest), Append(items, e.v))
             ELSE [ok |-> FALSE]

(* ast.literal_eval(x) for a str x: [ok |-> TRUE, v |-> value] or [ok |-> FALSE] *)
literal_eval(toks) ==
    LET r == EvalValue(toks)
    IN  IF r.ok /\ Len(r.rest) = 0 THEN [ok |-> TRUE, v |-> r.v] ELSE [ok |-> FALSE]

(* to_list with "except Exception: return [x]": the text kept as one genre *)
to_list_wrapping(x) ==
    IF x.tag = "list" THEN x
    ELSE IF x.tag = "nan" \/ x.tag \notin {"text", "str"} THEN List(<<>>)
    ELSE LET r == IF x.tag = "text" THEN literal_eval(x.val) ELSE [ok |-> FALSE]
         IN  IF ~r.ok THEN List(<<x>>)
             ELSE IF r.v.tag = "list" THEN r.v ELSE List(<<>>)

(* the first occurrence of each element: list(dict.fromkeys(v)) *)
RECURSIVE Unique(_)
Unique(items) ==
    IF Len(items) = 0 THEN <<>>
    ELSE LET front == Unique(SubSeq(items, 1, Len(items) - 1))
             last  == items[Len(items)]
         IN  IF \E i \in DOMAIN front : front[i].tag = last.tag /\ front[i] = last
             THEN front ELSE Append(front, items[Len(items)])

(* to_list that drops the repeated genres of a sequence *)
to_list_deduplicating(x) ==
    IF x.tag = "list" THEN List(Unique(x.items))
    ELSE IF x.tag = "nan" \/ x.tag \notin {"text", "str"} THEN List(<<>>)
    ELSE LET r == IF x.tag = "text" THEN literal_eval(x.val) ELSE [ok |-> FALSE]
         IN  IF ~r.ok THEN List(<<>>)
             ELSE IF r.v.tag = "list" THEN List(Unique(r.v.items)) ELSE List(<<>>)

(* to_list(x): the genre sequence of a genre-field value *)
to_list(x) ==
    IF x.tag = "list" THEN x
    ELSE IF x.tag = "nan" \/ x.tag \notin {"text", "str"} THEN List(<<>>)
    ELSE LET r == IF x.tag = "text" THEN literal_eval(x.val)
                  ELSE [ok |-> FALSE]   \* a bare word is no literal: ValueError
         IN  IF ~r.ok THEN List(<<>>)
             ELSE IF r.v.tag = "list" THEN r.v ELSE List(<<>>)

-----------------------------------------------------------------------------
(* The rows the tables are drawn from *)

Track(tid, tname, aid, aname, album) ==
    [track_id |-> tid, track_name |-> tname, artist_id |-> aid,
     artist_name |-> aname, album_name |-> album]

(* Two tracks of artist a1, the second carrying a drifted artist name, and
   one track of artist a2 *)
TrackList ==
    << Track("t1", "Song1", "a1", "A1",  "Alb1"),
       Track("t2", "Song2", "a1", "A1x", "Alb1"),
       Track("t3", "Song3", "a2", "A2",  "Alb2") >>

(* played_at values, newest first (fetch_recently_played pages backwards) *)
PlayedTimes == <<10, 5>>

(* the instants main() may read from the clock: one that precedes a
   played_at of the table, and one whose cutoff is a played_at of the table *)
NowValues == {7, 40}

(* a row of recently_played.csv (normalize_recent) *)
PlayRow(t, at) ==
    [played_at |-> at, track_id |-> t.track_id, track_name |-> t.track_name,
     artist_id |-> t.artist_id, artist_name |-> t.artist_name,
     album_name |-> t.album_name]

(* a row of saved_tracks.csv (normalize_saved) *)
SavedRow(t, at) ==
    [added_at |-> at, track_id |-> t.track_id, track_name |-> t.track_name,
     artist_id |-> t.artist_id, artist_name |-> t.artist_name,
     album_name |-> t.album_name]

RecentRows ==
    [k \in 1..(Len(PlayedTimes) * Len(TrackList)) |->
        PlayRow(TrackList[((k - 1) % Len(TrackList)) + 1],
                PlayedTimes[((k - 1) \div Len(TrackList)) + 1])]

SavedRows == [k \in 1..Len(TrackList) |-> SavedRow(TrackList[k], 1)]

(* rows of artist_genres.csv: the genres cell is the text of a list, or an
   empty cell *)
GenreRows ==
    << [artist_id |-> "a1", artist_name |-> "A1",
        genres |-> Repr(<<Str("rock"), Str("jazz")>>)],
       [artist_id |-> "a2", artist_name |-> "A2",
        genres |-> Repr(<<Str("rock")>>)],
       [artist_id |-> "a2", artist_name |-> "A2",
        genres |-> Repr(<<>>)],
       [artist_id |-> "a1", artist_name |-> "A1",
        genres |-> NaN] >>

(* genre names in the order groupby sorts its keys *)
GenreNames == <<"jazz", "rock">>

Rank(universe, r) == CHOOSE k \in DOMAIN universe : universe[k] = r

NoFile == [exists |-> FALSE, rows |-> <<>>]

File(rows) == [exists |-> TRUE, rows |-> rows]

NoReport == [exists |-> FALSE, columns |-> <<>>, rows |-> <<>>]

(* a pipeline that has not been run: -1 stands for "no exit status yet" *)
NotRun == [status |-> -1, message |-> <<>>]

(* a process outcome: exit status and what it printed to stderr *)
Exit(status, message) == [status |-> status, message |-> message]

-----------------------------------------------------------------------------
(* DataFrame operations.  A table is a sequence of rows (records). *)

RECURSIVE ConcatAll(_)
ConcatAll(seqs) ==
    IF Len(seqs) = 0 THEN <<>> ELSE Head(seqs) \o ConcatAll(Tail(seqs))

Member(x, s) == \E i \in DOMAIN s : s[i] = x

(* df[cols] with cols = track_id, track_name, artist_id, artist_name, album_name *)
SelectCols(rows) ==
    [i \in DOMAIN rows |->
        Track(rows[i].track_id, rows[i].track_name, rows[i].artist_id,
              rows[i].artist_name, rows[i].album_name)]

(* DataFrame.drop_duplicates(): the first occurrence of each row is kept *)
RECURSIVE DropDuplicates(_)
DropDuplicates(rows) ==
    IF Len(rows) = 0 THEN <<>>
    ELSE LET front == DropDuplicates(SubSeq(rows, 1, Len(rows) - 1))
             last  == rows[Len(rows)]
         IN  IF Member(last, front) THEN front ELSE Append(front, last)

WithGenres(row, cell) ==
    [track_id |-> row.track_id, track_name |-> row.track_name,
     artist_id |-> row.artist_id, artist_name |-> row.artist_name,
     album_name |-> row.album_name, genres |-> cell]

(* a join on artist_id alone *)
KeyMatchIdOnly(row, entry) == row.artist_id = entry.artist_id

(* the key of the join: on=["artist_id","artist_name"] *)
KeyMatch(row, entry) ==
    row.artist_id = entry.artist_id /\ row.artist_name = entry.artist_name

(* base.merge(genres[["artist_id","artist_name","genres"]], on=..., how="left"):
   every base row once per matching catalog row, or once with a NaN genres
   cell when none matches *)
MergeGenres(base, catalog) ==
    ConcatAll([i \in DOMAIN base |->
        LET m == SelectSeq(catalog, LAMBDA e : KeyMatch(base[i], e))
        IN  IF Len(m) = 0 THEN <<WithGenres(base[i], NaN)>>
            ELSE [j \in DOMAIN m |-> WithGenres(base[i], m[j].genres)]])

(* df["genres"] = df["genres"].apply(to_list) *)
ApplyToList(rows) ==
    [i \in DOMAIN rows |-> [rows[i] EXCEPT !.genres = to_list(rows[i].genres)]]

(* DataFrame.explode("genres"): one row per list element; an empty list gives
   one row with NaN *)
Explode(rows) ==
    ConcatAll([i \in DOMAIN rows |->
        LET it == rows[i].genres.items
        IN  IF Len(it) = 0 THEN <<[rows[i] EXCEPT !.genres = NaN]>>
            ELSE [j \in DOMAIN it |-> [rows[i] EXCEPT !.genres = it[j]]]])

(* DataFrame.dropna(subset=["genres"]) *)
DropNa(rows) == SelectSeq(rows, LAMBDA r : r.genres.tag # "nan")

(* load_required: genres["genres"] = genres["genres"].apply(to_list) *)
load_required(catalog) == ApplyToList(catalog)

(* explode_with_genres without base = df_tracks[cols].drop_duplicates() *)
explode_without_dedup(df_tracks, catalog) ==
    DropNa(Explode(ApplyToList(MergeGenres(SelectCols(df_tracks), catalog))))

explode_with_genres(df_tracks, catalog) ==
    LET base   == DropDuplicates(SelectCols(df_tracks))
        merged == ApplyToList(MergeGenres(base, catalog))
    IN  DropNa(Explode(merged))

(* the window with an exclusive lower bound: played_at > cutoff *)
WindowExclusive(rows, now) ==
    SelectSeq(rows, LAMBDA r : r.played_at > now - WindowDays)

(* recent[recent["played_at"] >= cutoff] with cutoff = now - timedelta(days=30) *)
Window(rows, now) ==
    SelectSeq(rows, LAMBDA r : r.played_at >= now - WindowDays)

(* pd.concat([recent, saved], ignore_index=True) *)
Concat(a, b) == a \o b

-----------------------------------------------------------------------------
(* Aggregation.  A frame is [columns |-> names, rows |-> records]; a ratio
   a/b is [n |-> a, d |-> b] with d > 0. *)

Ratio(a, b) == [n |-> a, d |-> b]

RatDiv(x, y) == Ratio(x.n * y.d, x.d * y.n)

RatLess(x, y) == x.n * y.d < y.n * x.d

RatEq(x, y) == x.n * y.d = y.n * x.d

(* the keys of groupby("genres"), sorted *)
GroupKeys(rows) ==
    SelectSeq(GenreNames, LAMBDA g : \E i \in DOMAIN rows : rows[i].genres.val = g)

GroupCount(rows, g) == Len(SelectSeq(rows, LAMBDA r : r.genres.val = g))

(* a count of the distinct tracks of a genre, as nunique() gives, in place of
   the count of its rows *)
GroupSize30Distinct(rows) ==
    LET keys == GroupKeys(rows)
    IN  [columns |-> <<"genre", "size_30">>,
         rows |-> [i \in DOMAIN keys |->
                    [genre |-> keys[i],
                     size_30 |-> Cardinality({rows[n].track_id : n \in
                        {m \in DOMAIN rows : rows[m].genres.val = keys[i]}})]]]

(* exp_30.groupby("genres", as_index=False).size()
         .rename(columns={"genres":"genre","size":"size_30"}) *)
GroupSize30(rows) ==
    LET keys == GroupKeys(rows)
    IN  [columns |-> <<"genre", "size_30">>,
         rows |-> [i \in DOMAIN keys |->
                    [genre |-> keys[i], size_30 |-> GroupCount(rows, keys[i])]]]

(* exp_all.groupby("genres", as_index=False).size()
          .rename(columns={"genres":"genre","size":"size_all"}) *)
GroupSizeAll(rows) ==
    LET keys == GroupKeys(rows)
    IN  [columns |-> <<"genre", "size_all">>,
         rows |-> [i \in DOMAIN keys |->
                    [genre |-> keys[i], size_all |-> GroupCount(rows, keys[i])]]]

(* the join with how="inner": a genre without a g30 row is dropped *)
MergeCountsInner(gall, g30) ==
    [columns |-> gall.columns \o SelectSeq(g30.columns, LAMBDA c : c # "genre"),
     rows |-> ConcatAll([i \in DOMAIN gall.rows |->
        LET m == SelectSeq(g30.rows, LAMBDA r : r.genre = gall.rows[i].genre)
        IN  [j \in DOMAIN m |->
                [genre |-> gall.rows[i].genre,
                 size_all |-> gall.rows[i].size_all,
                 size_30 |-> Num(m[j].size_30)]]])]

(* gall.merge(g30, on="genre", how="left"): the rows of gall, each with the
   size_30 of the g30 row of its genre, NaN when g30 has none *)
MergeCounts(gall, g30) ==
    [columns |-> gall.columns \o SelectSeq(g30.columns, LAMBDA c : c # "genre"),
     rows |-> ConcatAll([i \in DOMAIN gall.rows |->
        LET m == SelectSeq(g30.rows, LAMBDA r : r.genre = gall.rows[i].genre)
        IN  IF Len(m) = 0
            THEN <<[genre |-> gall.rows[i].genre,
                    size_all |-> gall.rows[i].size_all, size_30 |-> NaN]>>
            ELSE [j \in DOMAIN m |->
                    [genre |-> gall.rows[i].genre,
                     size_all |-> gall.rows[i].size_all,
                     size_30 |-> Num(m[j].size_30)]]])]

(* comp["size_30"] = comp["size_30"].fillna(0).astype(int) *)
FillSize30(comp) ==
    [comp EXCEPT !.rows =
        [i \in DOMAIN comp.rows |->
            [comp.rows[i] EXCEPT !.size_30 =
                IF @.tag = "nan" THEN 0 ELSE @.val]]]

RECURSIVE SumSize30(_)
SumSize30(rows) ==
    IF Len(rows) = 0 THEN 0 ELSE Head(rows).size_30 + SumSize30(Tail(rows))

RECURSIVE SumSizeAll(_)
SumSizeAll(rows) ==
    IF Len(rows) = 0 THEN 0 ELSE Head(rows).size_all + SumSizeAll(Tail(rows))

(* comp[name] = ... : a new column goes last *)
WithColumn(columns, name) ==
    IF Member(name, columns) THEN columns ELSE Append(columns, name)

(* the share taken with floor division: size // total *)
PctFloorDiv(size, total) ==
    IF total > 0 THEN Ratio(size \div total, 1) ELSE Ratio(0, 1)

(* comp["pct_30"] = (comp["size_30"] / total_30) if total_30 > 0 else 0 *)
Pct(size, total) == IF total > 0 THEN Ratio(size, total) ELSE Ratio(0, 1)

(* the guard put on pct_30 in place of pct_all *)
LiftGuardedByPct30(pct_30, pct_all) ==
    IF pct_30.n > 0 THEN Num(RatDiv(pct_30, pct_all)) ELSE NaN

(* lambda r: (r["pct_30"]/r["pct_all"]) if r["pct_all"]>0 else None *)
Lift(pct_30, pct_all) ==
    IF pct_all.n > 0 THEN Num(RatDiv(pct_30, pct_all)) ELSE NaN

Percentages(comp) ==
    LET total_30  == SumSize30(comp.rows)
        total_all == SumSizeAll(comp.rows)
    IN  [columns |-> WithColumn(WithColumn(WithColumn(comp.columns,
                        "pct_30"), "pct_all"), "lift"),
         rows |-> [i \in DOMAIN comp.rows |->
            LET r  == comp.rows[i]
                p30  == Pct(r.size_30, total_30)
                pall == Pct(r.size_all, total_all)
            IN  [genre |-> r.genre, size_all |-> r.size_all,
                 size_30 |-> r.size_30, pct_30 |-> p30, pct_all |-> pall,
                 lift |-> Lift(p30, pall)]]]

(* the order of sort_values(["lift","size_30"], ascending=[False, False]):
   lift descending with NaN last, then size_30 descending *)
Precedes(a, b) ==
    IF a.lift.tag = "nan" /\ b.lift.tag = "nan" THEN a.size_30 > b.size_30
    ELSE IF a.lift.tag = "nan" THEN FALSE
    ELSE IF b.lift.tag = "nan" THEN TRUE
    ELSE \/ RatLess(b.lift.val, a.lift.val)
         \/ RatEq(a.lift.val, b.lift.val) /\ a.size_30 > b.size_30

(* insertion of x behind every row that does not come after it *)
RECURSIVE Insert(_, _)
Insert(sorted, x) ==
    IF Len(sorted) = 0 THEN <<x>>
    ELSE IF Precedes(x, Head(sorted)) THEN <<x>> \o sorted
    ELSE <<Head(sorted)>> \o Insert(Tail(sorted), x)

RECURSIVE SortRows(_)
SortRows(rows) ==
    IF Len(rows) = 0 THEN <<>>
    ELSE Insert(SortRows(SubSeq(rows, 1, Len(rows) - 1)), rows[Len(rows)])

(* the sorted frame thrown away: comp.sort_values(...) without the assignment *)
sort_values_discarded(comp) == comp

(* comp = comp.sort_values(["lift","size_30"], ascending=[False, False]) *)
sort_values(comp) == [comp EXCEPT !.rows = SortRows(comp.rows)]

-----------------------------------------------------------------------------
(* build_genre_comparison_30d.py *)

RecentPath == "recently_played.csv"

SavedPath == "saved_tracks.csv"

GenresPath == "artist_genres.csv"

(* the columns of the frame written on the empty path *)
EmptyCompareColumns == <<"genre", "size_30", "pct_30", "size_all", "pct_all", "lift">>

(* exp_30 built from every play inside the window, repeated plays kept *)
Exp30KeepingPlays(recentRows, catalog, now) ==
    explode_without_dedup(Window(recentRows, now), load_required(catalog))

(* exp_30 of main(): explode_with_genres(recent_30, genres) *)
Exp30Of(recentRows, catalog, now) ==
    explode_with_genres(Window(recentRows, now), load_required(catalog))

(* exp_all of main(): explode_with_genres(pd.concat([recent, saved]), genres) *)
ExpAllOf(recentRows, savedRows, catalog) ==
    explode_with_genres(Concat(recentRows, savedRows), load_required(catalog))

(* g30, gall, the join, percentages, lift and the sort *)
Compare(exp_30, exp_all) ==
    sort_values(Percentages(FillSize30(
        MergeCounts(GroupSizeAll(exp_all), GroupSize30(exp_30)))))

(* what main() writes to genre_compare_30d.csv once the tables are loaded *)
CompareReportOf(recentRows, savedRows, catalog, now) ==
    LET exp_30  == Exp30Of(recentRows, catalog, now)
        exp_all == ExpAllOf(recentRows, savedRows, catalog)
    IN  IF Len(exp_all) = 0
        THEN [exists |-> TRUE, columns |-> EmptyCompareColumns, rows |-> <<>>]
        ELSE LET comp == Compare(exp_30, exp_all)
             IN  [exists |-> TRUE, columns |-> comp.columns, rows |-> comp.rows]

(* pd.read_csv of a path that does not exist raises FileNotFoundError, which
   nothing catches: the interpreter prints the traceback and exits with 1 *)
ReadCsvFailure(path) ==
    Exit(1, <<"FileNotFoundError", "No such file or directory", path>>)

(* load_required reads the three tables in this order *)
CompareLoadFailure ==
    IF ~recent.exists THEN ReadCsvFailure(RecentPath)
    ELSE IF ~saved.exists THEN ReadCsvFailure(SavedPath)
    ELSE ReadCsvFailure(GenresPath)

RunComparison(now) ==
    /\ phase = "analyze"
    /\ IF ~recent.exists \/ ~saved.exists \/ ~genres.exists
       THEN /\ compare_run' = CompareLoadFailure
            /\ compare_out' = compare_out
       ELSE /\ compare_run' = [status |-> 0, message |-> <<>>, now |-> now]
            /\ compare_out' = CompareReportOf(recent.rows, saved.rows, genres.rows, now)
    /\ UNCHANGED <<recent, saved, genres, phase, summary_out, summary_run, genre_field, normalized>>

-----------------------------------------------------------------------------
(* build_genre_summary.py *)

(* sys.exit(f"Missing {p}. Run fetch_spotify_data.py first.") *)
MissingExit(path) ==
    Exit(1, <<"Missing", path, "Run", "fetch_spotify_data.py", "first">>)

(* the same message with a success status *)
EmptyGenresExitZero ==
    Exit(0, <<"artist_genres.csv", "is empty or missing required columns">>)

(* sys.exit("artist_genres.csv is empty or missing required columns.") *)
EmptyGenresExit ==
    Exit(1, <<"artist_genres.csv", "is empty or missing required columns">>)

(* the rows of counts: groupby("genres").size().sort_values("size",
   ascending=False); rows of equal size keep the order of the keys *)
RECURSIVE InsertBySize(_, _)
InsertBySize(sorted, x) ==
    IF Len(sorted) = 0 THEN <<x>>
    ELSE IF x.size > Head(sorted).size THEN <<x>> \o sorted
    ELSE <<Head(sorted)>> \o InsertBySize(Tail(sorted), x)

RECURSIVE SortBySize(_)
SortBySize(rows) ==
    IF Len(rows) = 0 THEN <<>>
    ELSE InsertBySize(SortBySize(SubSeq(rows, 1, Len(rows) - 1)), rows[Len(rows)])

GenreCounts(exploded) ==
    LET keys == GroupKeys(exploded)
    IN  SortBySize([i \in DOMAIN keys |->
            [genres |-> keys[i], size |-> GroupCount(exploded, keys[i])]])

(* exploded of main(): the catalog is merged as read, to_list applied after *)
SummaryExploded ==
    LET combo == DropDuplicates(Concat(SelectCols(recent.rows), SelectCols(saved.rows)))
        df    == ApplyToList(MergeGenres(combo, genres.rows))
    IN  DropNa(Explode(df))

SummaryReport ==
    [exists |-> TRUE, columns |-> <<"genres", "size">>,
     rows |-> IF Len(SummaryExploded) = 0 THEN <<>> ELSE GenreCounts(SummaryExploded)]

(* the tables written by fetch_spotify_data.py always carry the columns
   main() looks for, so its column checks pass *)
RunSummary ==
    /\ phase = "analyze"
    /\ IF ~recent.exists THEN
            /\ summary_run' = MissingExit(RecentPath)
            /\ summary_out' = summary_out
       ELSE IF ~saved.exists THEN
            /\ summary_run' = MissingExit(SavedPath)
            /\ summary_out' = summary_out
       ELSE IF ~genres.exists THEN
            /\ summary_run' = MissingExit(GenresPath)
            /\ summary_out' = summary_out
       ELSE IF Len(genres.rows) = 0 THEN
            /\ summary_run' = EmptyGenresExit
            /\ summary_out' = summary_out
       ELSE /\ summary_run' = Exit(0, <<>>)
            /\ summary_out' = SummaryReport
    /\ UNCHANGED <<recent, saved, genres, phase, compare_out, compare_run, genre_field, normalized>>

-----------------------------------------------------------------------------
(* The tables in data/processed, as fetch_spotify_data.py (or the user)
   leaves them.  Rows are appended in the order of the row lists above: the
   pipelines sort by key before they write, so the order of the rows of a
   table does not reach the reports. *)

CanAppend(file, universe, k, max) ==
    /\ Len(file.rows) < max
    /\ Len(file.rows) > 0 => Rank(universe, file.rows[Len(file.rows)]) <= k

AddRecent(k) ==
    /\ phase = "fetch"
    /\ CanAppend(recent, RecentRows, k, MaxRecent)
    /\ recent' = File(Append(recent.rows, RecentRows[k]))
    /\ UNCHANGED <<saved, genres, phase, compare_out, summary_out, compare_run, summary_run, genre_field, normalized>>

AddSaved(k) ==
    /\ phase = "fetch"
    /\ CanAppend(saved, SavedRows, k, MaxSaved)
    /\ saved' = File(Append(saved.rows, SavedRows[k]))
    /\ UNCHANGED <<recent, genres, phase, compare_out, summary_out, compare_run, summary_run, genre_field, normalized>>

AddGenres(k) ==
    /\ phase = "fetch"
    /\ CanAppend(genres, GenreRows, k, MaxGenres)
    /\ genres' = File(Append(genres.rows, GenreRows[k]))
    /\ UNCHANGED <<recent, saved, phase, compare_out, summary_out, compare_run, summary_run, genre_field, normalized>>

(* a table that is present with its header and no rows *)
CreateEmpty(path) ==
    /\ phase = "fetch"
    /\ \/ path = RecentPath /\ ~recent.exists
       \/ path = SavedPath /\ ~saved.exists
       \/ path = GenresPath /\ ~genres.exists
    /\ recent' = IF path = RecentPath THEN File(<<>>) ELSE recent
    /\ saved'  = IF path = SavedPath THEN File(<<>>) ELSE saved
    /\ genres' = IF path = GenresPath THEN File(<<>>) ELSE genres
    /\ UNCHANGED <<phase, compare_out, summary_out, compare_run, summary_run, genre_field, normalized>>

(* the fetch is over; the pipelines are run on what it left *)
FetchDone ==
    /\ phase = "fetch"
    /\ phase' = "analyze"
    /\ UNCHANGED <<recent, saved, genres, compare_out, summary_out, compare_run, summary_run, genre_field, normalized>>

Init ==
    /\ recent = NoFile
    /\ saved = NoFile
    /\ genres = NoFile
    /\ phase = "fetch"
    /\ compare_out = NoReport
    /\ summary_out = NoReport
    /\ compare_run = NotRun
    /\ summary_run = NotRun
    /\ genre_field = NaN
    /\ normalized = <<>>

Next ==
    \/ \E k \in DOMAIN RecentRows : AddRecent(k)
    \/ \E k \in DOMAIN SavedRows : AddSaved(k)
    \/ \E k \in DOMAIN GenreRows : AddGenres(k)
    \/ \E path \in {RecentPath, SavedPath, GenresPath} : CreateEmpty(path)
    \/ FetchDone
    \/ \E now \in NowValues : RunComparison(now)
    \/ RunSummary

Spec == Init /\ [][Next]_vars

-----------------------------------------------------------------------------
(* Properties.  The tables do not change once the pipelines run, so what a
   run computed can be recomputed from the state. *)

RECURSIVE SumSeq(_)
SumSeq(ns) == IF Len(ns) = 0 THEN 0 ELSE Head(ns) + SumSeq(Tail(ns))

Tracks == {TrackList[k] : k \in DOMAIN TrackList}

SameTrack(r, t) ==
    /\ r.track_id = t.track_id /\ r.track_name = t.track_name
    /\ r.artist_id = t.artist_id /\ r.artist_name = t.artist_name
    /\ r.album_name = t.album_name

(* the comparison pipeline has run to its end *)
CompareRan == phase = "analyze" /\ compare_run.status = 0

RunExp30 == Exp30Of(recent.rows, genres.rows, compare_run.now)

RunExpAll == ExpAllOf(recent.rows, saved.rows, genres.rows)

(* m: the recent-plays records of track t inside the window of the run *)
PlaysInWindow(t) ==
    Cardinality({i \in DOMAIN recent.rows :
        /\ SameTrack(recent.rows[i], t)
        /\ recent.rows[i].played_at >= compare_run.now - WindowDays})

(* how often genre g is among the tags the catalog gives the artist of t *)
TagCount(t, g) ==
    SumSeq([j \in DOMAIN genres.rows |->
        IF genres.rows[j].artist_id = t.artist_id
           /\ genres.rows[j].artist_name = t.artist_name
        THEN LET it == to_list(genres.rows[j].genres).items
             IN  Cardinality({n \in DOMAIN it : it[n].val = g})
        ELSE 0])

(* k: the genre tags the catalog gives the artist of t *)
Tags(t) == SumSeq([n \in DOMAIN GenreNames |-> TagCount(t, GenreNames[n])])

RowsOfTrack(exp, t) == Cardinality({i \in DOMAIN exp : SameTrack(exp[i], t)})

(* the plays of t inside the window differ in played_at *)
PlaysDiffer(t) ==
    \A i, j \in DOMAIN recent.rows :
        /\ i # j
        /\ SameTrack(recent.rows[i], t) /\ SameTrack(recent.rows[j], t)
        /\ recent.rows[i].played_at >= compare_run.now - WindowDays
        /\ recent.rows[j].played_at >= compare_run.now - WindowDays
        => recent.rows[i].played_at # recent.rows[j].played_at

(* C1 as stated: a track with m plays inside the window, differing only in
   played_at, and k tags has k*m rows in the windowed exploded set *)
C1_PlaysNotDeduplicated ==
    CompareRan =>
        \A t \in Tracks :
            PlaysDiffer(t) =>
                RowsOfTrack(RunExp30, t) = Tags(t) * PlaysInWindow(t)

(* C1 amended: explode_with_genres drops the repeated plays, so a track with
   m >= 1 plays inside the window and k tags has k rows in the windowed
   exploded set, and size_30 of a genre counts each windowed track once per
   tag of that genre *)
C1_PlaysDeduplicated ==
    CompareRan =>
        /\ \A t \in Tracks :
              RowsOfTrack(RunExp30, t) =
                 Tags(t) * (IF PlaysInWindow(t) > 0 THEN 1 ELSE 0)
        /\ \A i \in DOMAIN compare_out.rows :
              compare_out.rows[i].size_30 =
                 SumSeq([k \in DOMAIN TrackList |->
                    IF PlaysInWindow(TrackList[k]) > 0
                    THEN TagCount(TrackList[k], compare_out.rows[i].genre)
                    ELSE 0])

(* a run over a track with two tags played at two instants inside the window *)
C1_Witness ==
    /\ CompareRan
    /\ \E t \in Tracks :
          /\ Tags(t) = 2
          /\ PlaysInWindow(t) = 2
          /\ PlaysDiffer(t)
          /\ RowsOfTrack(RunExp30, t) = 2
          /\ \E i \in DOMAIN compare_out.rows : compare_out.rows[i].size_30 = 1

(* the tables of at most max rows drawn from a list of rows, in its order *)
TablesOf(universe, max) ==
    UNION {{[i \in 1..len |-> universe[f[i]]] :
              f \in {h \in [1..len -> DOMAIN universe] :
                        \A i \in 1..(len - 1) : h[i] <= h[i + 1]}} :
           len \in 0..max}

(* C2 as stated, once main() has run: some recent-plays, saved-library and
   artist-genre tables and some now make main() write a row with
   size_30 > size_all *)
C2_SomeInputExceeds ==
    CompareRan =>
    \E r \in TablesOf(RecentRows, MaxRecent), s \in TablesOf(SavedRows, MaxSaved),
       g \in TablesOf(GenreRows, MaxGenres), now \in NowValues :
        LET report == CompareReportOf(r, s, g, now)
        IN  \E i \in DOMAIN report.rows :
                report.rows[i].size_30 > report.rows[i].size_all

(* C2 amended: every row of every report main() writes has
   size_30 <= size_all, since both branches drop repeated track rows and the
   windowed plays are among the rows of the all-time union *)
C2_Size30AtMostSizeAll ==
    compare_out.exists =>
        \A i \in DOMAIN compare_out.rows :
            compare_out.rows[i].size_30 <= compare_out.rows[i].size_all

(* a report over a track played twice inside the window, where the repeated
   plays would have to show: its genres have size_30 = size_all *)
C2_Witness ==
    /\ CompareRan
    /\ \E t \in Tracks : PlaysInWindow(t) = 2 /\ PlaysDiffer(t) /\ Tags(t) > 0
    /\ Len(compare_out.rows) > 0
    /\ \A i \in DOMAIN compare_out.rows :
          /\ compare_out.rows[i].size_30 > 0
          /\ compare_out.rows[i].size_30 = compare_out.rows[i].size_all

(* the column sequence of the genre-comparison table *)
ReportColumns == <<"genre", "size_all", "size_30", "pct_30", "pct_all", "lift">>

(* C3: whatever path main() took, the columns it wrote are
   genre, size_all, size_30, pct_30, pct_all, lift in that order *)
C3_SameColumnsOnBothPaths ==
    compare_out.exists => compare_out.columns = ReportColumns

MissingPaths ==
    {p \in {RecentPath, SavedPath, GenresPath} :
        \/ p = RecentPath /\ ~recent.exists
        \/ p = SavedPath /\ ~saved.exists
        \/ p = GenresPath /\ ~genres.exists}

(* a failure whose diagnostic names a missing file and the step that
   produces it *)
DiagnosedMissing(run) ==
    /\ run.status > 0
    /\ \E p \in MissingPaths : Member(p, run.message)
    /\ Member("fetch_spotify_data.py", run.message)

(* C4: with an input table absent, a run of either pipeline fails with a
   non-zero status and a diagnostic naming the missing file and the upstream
   step, and writes no output *)
C4_MissingInputDiagnosed ==
    phase = "analyze" /\ MissingPaths # {} =>
        /\ compare_run # NotRun =>
              DiagnosedMissing(compare_run) /\ compare_out = NoReport
        /\ summary_run # NotRun =>
              DiagnosedMissing(summary_run) /\ summary_out = NoReport

AllPresent == recent.exists /\ saved.exists /\ genres.exists

EmptyReportWritten(run, out) ==
    run.status = 0 /\ out.exists /\ out.rows = <<>>

(* C5 as stated: with the three tables present and an empty all-time exploded
   set, each pipeline that ran wrote an empty report and succeeded *)
C5_EmptySetSucceeds ==
    phase = "analyze" /\ AllPresent =>
        /\ compare_run # NotRun /\ Len(RunExpAll) = 0 =>
              EmptyReportWritten(compare_run, compare_out)
        /\ summary_run # NotRun /\ Len(SummaryExploded) = 0 =>
              EmptyReportWritten(summary_run, summary_out)

(* C5 amended: the comparison pipeline does so; the genre-summary pipeline
   does so when the artist-genre table has a row, and exits with a non-zero
   status, writing nothing, when the artist-genre table has none *)
C5_EmptySetSucceedsButEmptyCatalog ==
    phase = "analyze" /\ AllPresent =>
        /\ compare_run # NotRun /\ Len(RunExpAll) = 0 =>
              EmptyReportWritten(compare_run, compare_out)
        /\ summary_run # NotRun /\ Len(SummaryExploded) = 0 =>
              IF Len(genres.rows) > 0
              THEN EmptyReportWritten(summary_run, summary_out)
              ELSE summary_run.status > 0 /\ summary_out = NoReport

(* both pipelines ran over tracks none of which has a genre, and over an
   artist-genre table without rows *)
C5_Witness ==
    /\ phase = "analyze" /\ AllPresent
    /\ Len(recent.rows) > 0 /\ Len(genres.rows) = 0
    /\ Len(RunExpAll) = 0 /\ Len(SummaryExploded) = 0
    /\ EmptyReportWritten(compare_run, compare_out)
    /\ summary_run.status > 0 /\ summary_out = NoReport

(* the rows of a track set that explode_with_genres is to return: for each
   distinct track row, the tags of the catalog rows with its
   (artist_id, artist_name) *)
JoinedGenreCount(df_tracks) ==
    SumSeq([k \in DOMAIN TrackList |->
        IF \E i \in DOMAIN df_tracks : SameTrack(df_tracks[i], TrackList[k])
        THEN Tags(TrackList[k]) ELSE 0])

ExplodeCountsJoinedGenres(df_tracks) ==
    LET exp == explode_with_genres(df_tracks, load_required(genres.rows))
    IN  /\ Len(exp) = JoinedGenreCount(df_tracks)
        /\ Len(explode_with_genres(df_tracks, genres.rows)) = JoinedGenreCount(df_tracks)
        /\ \A t \in Tracks : Tags(t) = 0 => RowsOfTrack(exp, t) = 0

(* C6: explode_with_genres returns as many rows as the joined genre sequences
   of the deduplicated track rows have elements; a track without a catalog
   row of its (artist_id, artist_name), or with an empty genre sequence,
   has no row in the result *)
C6_ExplodeRowCount ==
    /\ ExplodeCountsJoinedGenres(Concat(recent.rows, saved.rows))
    /\ \A now \in NowValues : ExplodeCountsJoinedGenres(Window(recent.rows, now))

(* a run over a track whose artist is in the catalog under another name,
   beside a track that has genres *)
C6_Witness ==
    /\ CompareRan
    /\ Len(RunExpAll) > 0
    /\ \E i \in DOMAIN recent.rows :
          /\ Tags(recent.rows[i]) = 0
          /\ \E j \in DOMAIN genres.rows :
                /\ genres.rows[j].artist_id = recent.rows[i].artist_id
                /\ Len(to_list(genres.rows[j].genres).items) > 0
          /\ RowsOfTrack(RunExpAll, recent.rows[i]) = 0

(* C7: in a non-empty report the size_all add up to the rows of the all-time
   exploded set and the size_30 to the rows of the windowed exploded set *)
C7_SizesAddUp ==
    CompareRan /\ Len(compare_out.rows) > 0 =>
        /\ SumSeq([i \in DOMAIN compare_out.rows |-> compare_out.rows[i].size_all])
              = Len(RunExpAll)
        /\ SumSeq([i \in DOMAIN compare_out.rows |-> compare_out.rows[i].size_30])
              = Len(RunExp30)

(* a report of two genres over a windowed set smaller than the all-time set *)
C7_Witness ==
    /\ CompareRan
    /\ Len(compare_out.rows) = 2
    /\ Len(RunExp30) > 1
    /\ Len(RunExp30) < Len(RunExpAll)

(* C8: lift is absent exactly in the rows with pct_all = 0; a lift that is
   there is pct_30 / pct_all, not negative and finite *)
C8_LiftDefinedness ==
    compare_out.exists =>
        \A i \in DOMAIN compare_out.rows :
            LET r == compare_out.rows[i]
            IN  /\ r.lift.tag = "nan" <=> r.pct_all.n = 0
                /\ r.lift.tag # "nan" =>
                      /\ r.lift.val.d > 0
                      /\ r.lift.val.n >= 0
                      /\ r.lift.val.n * r.pct_30.d * r.pct_all.n
                            = r.lift.val.d * r.pct_30.n * r.pct_all.d

(* a report with a genre above and a genre below its all-time share *)
C8_Witness ==
    /\ CompareRan
    /\ \E i, j \in DOMAIN compare_out.rows :
          /\ compare_out.rows[i].lift.tag = "num"
          /\ compare_out.rows[i].lift.val.n > compare_out.rows[i].lift.val.d
          /\ compare_out.rows[j].lift.tag = "num"
          /\ compare_out.rows[j].lift.val.n < compare_out.rows[j].lift.val.d

GenresOf(exp) == {exp[i].genres.val : i \in DOMAIN exp}

(* C9: every genre of the all-time exploded set has exactly one row in the
   report; a genre without a row in the windowed exploded set has size_30 = 0,
   pct_30 = 0 and lift = 0, not an absent lift *)
C9_OneRowPerGenre ==
    CompareRan =>
        \A g \in GenresOf(RunExpAll) :
            /\ Cardinality({i \in DOMAIN compare_out.rows :
                              compare_out.rows[i].genre = g}) = 1
            /\ g \notin GenresOf(RunExp30) =>
                  \A i \in DOMAIN compare_out.rows :
                      compare_out.rows[i].genre = g =>
                          /\ compare_out.rows[i].size_30 = 0
                          /\ compare_out.rows[i].pct_30.n = 0
                          /\ compare_out.rows[i].lift.tag = "num"
                          /\ compare_out.rows[i].lift.val.n = 0
                          /\ compare_out.rows[i].lift.val.d > 0

(* a report of two genres written while no play is inside the window *)
C9_Witness ==
    /\ CompareRan
    /\ Len(recent.rows) > 0
    /\ Len(RunExp30) = 0
    /\ Cardinality(GenresOf(RunExpAll)) = 2
    /\ Len(compare_out.rows) = 2

(* C10: the rows with a lift come first, in non-increasing lift, rows of equal
   lift in non-increasing size_30; the rows without a lift come last *)
C10_SortedByLiftThenSize ==
    compare_out.exists =>
        \A i, j \in DOMAIN compare_out.rows :
            i < j =>
                LET a == compare_out.rows[i]
                    b == compare_out.rows[j]
                IN  /\ a.lift.tag = "nan" => b.lift.tag = "nan"
                    /\ a.lift.tag # "nan" /\ b.lift.tag # "nan" =>
                          /\ a.lift.val.n * b.lift.val.d >= b.lift.val.n * a.lift.val.d
                          /\ a.lift.val.n * b.lift.val.d = b.lift.val.n * a.lift.val.d
                                => a.size_30 >= b.size_30

(* a report whose sort moved a genre ahead of one that precedes it in key
   order, by a larger lift *)
C10_Witness ==
    /\ CompareRan
    /\ Len(compare_out.rows) = 2
    /\ compare_out.rows[1].genre = "rock"
    /\ compare_out.rows[2].genre = "jazz"
    /\ compare_out.rows[1].lift.tag = "num"
    /\ compare_out.rows[2].lift.tag = "num"
    /\ compare_out.rows[1].lift.val.n * compare_out.rows[2].lift.val.d
          > compare_out.rows[2].lift.val.n * compare_out.rows[1].lift.val.d

(* recent_30 of the run *)
RunRecent30 == Window(recent.rows, compare_run.now)

(* the positions of the recent-plays records at or after now - 30 days *)
InWindow ==
    {i \in DOMAIN recent.rows :
        recent.rows[i].played_at + WindowDays >= compare_run.now}

(* C13: recent_30 holds the recent-plays records with
   played_at >= now - 30 days, each as it is in the table and in the order of
   the table: the record at the cutoff and the records later than now are
   in, the records before the cutoff are out *)
C13_WindowIsInclusiveLowerBound ==
    CompareRan =>
        /\ Len(RunRecent30) = Cardinality(InWindow)
        /\ \E pos \in [DOMAIN RunRecent30 -> InWindow] :
              /\ \A i, j \in DOMAIN RunRecent30 : i < j => pos[i] < pos[j]
              /\ \A i \in DOMAIN RunRecent30 : RunRecent30[i] = recent.rows[pos[i]]
        /\ \A i \in DOMAIN recent.rows :
              /\ recent.rows[i].played_at = compare_run.now - WindowDays
                    => Member(recent.rows[i], RunRecent30)
              /\ recent.rows[i].played_at > compare_run.now
                    => Member(recent.rows[i], RunRecent30)
              /\ recent.rows[i].played_at < compare_run.now - WindowDays
                    => ~Member(recent.rows[i], RunRecent30)

(* a run whose table has a play at the cutoff and a play before it *)
C13_Witness ==
    /\ CompareRan
    /\ Len(recent.rows) = 2
    /\ \E i \in DOMAIN recent.rows :
          recent.rows[i].played_at = compare_run.now - WindowDays
    /\ \E i \in DOMAIN recent.rows :
          recent.rows[i].played_at < compare_run.now - WindowDays
    /\ Len(RunRecent30) = 1
    /\ RunRecent30[1].played_at = compare_run.now - WindowDays

(* the exact sum of a sequence of ratios *)
RECURSIVE RatSum(_)
RatSum(rs) ==
    IF Len(rs) = 0 THEN Ratio(0, 1)
    ELSE LET rest == RatSum(Tail(rs))
         IN  Ratio(Head(rs).n * rest.d + rest.n * Head(rs).d, Head(rs).d * rest.d)

(* the shares pcts of the counts sizes: each its count over the total and the
   shares adding up to 1 when the total is positive, each 0 otherwise *)
SharesOfTotal(sizes, pcts) ==
    LET total == SumSeq(sizes)
    IN  IF total > 0
        THEN /\ \A i \in DOMAIN sizes :
                   /\ pcts[i].d > 0
                   /\ pcts[i].n * total = sizes[i] * pcts[i].d
             /\ RatSum(pcts).n = RatSum(pcts).d
        ELSE \A i \in DOMAIN sizes : pcts[i].n = 0

(* C14: in a non-empty report each pct_30 is size_30 / total(size_30) and the
   pct_30 add up to 1 when total(size_30) > 0, and every pct_30 is 0 when it
   is 0; likewise pct_all with size_all *)
C14_PercentagesAreShares ==
    CompareRan /\ Len(compare_out.rows) > 0 =>
        /\ SharesOfTotal([i \in DOMAIN compare_out.rows |-> compare_out.rows[i].size_30],
                         [i \in DOMAIN compare_out.rows |-> compare_out.rows[i].pct_30])
        /\ SharesOfTotal([i \in DOMAIN compare_out.rows |-> compare_out.rows[i].size_all],
                         [i \in DOMAIN compare_out.rows |-> compare_out.rows[i].pct_all])

(* a report of two genres with unequal windowed counts *)
C14_Witness ==
    /\ CompareRan
    /\ Len(compare_out.rows) = 2
    /\ compare_out.rows[1].size_30 > compare_out.rows[2].size_30
    /\ compare_out.rows[2].size_30 > 0
    /\ compare_out.rows[1].pct_30.n = compare_out.rows[1].size_30
    /\ compare_out.rows[1].pct_30.d
          = compare_out.rows[1].size_30 + compare_out.rows[2].size_30

-----------------------------------------------------------------------------
(* to_list on its own: a value of the genres column and what to_list makes
   of it, first in load_required and then again in explode_with_genres *)

Tokens ==
    {LBR, RBR, COMMA, StrLit("rock"), StrLit("jazz"), NumLit("7"),
     NameTok("None"), NameTok("rock")}

(* the texts of a non-empty cell of at most MaxTokens tokens *)
TokenSeqs ==
    {toks \in UNION {[1..n -> Tokens] : n \in 1..MaxTokens} :
        \A i \in 1..(Len(toks) - 1) :
            ~(toks[i].t = "strlit" /\ toks[i + 1].t = "strlit")}

(* the sequences of at most MaxItems genre strings *)
GenreSeqs == UNION {[1..n -> {Str("rock"), Str("jazz")}] : n \in 0..MaxItems}

(* what a cell of the genres column may hold: nothing, a number, a list, the
   text fetch_spotify_data.py wrote for a list, or any other text *)
FieldValues ==
    {NaN, Num("7"), Str("rock")}
        \cup {List(g) : g \in GenreSeqs}
        \cup {Repr(g) : g \in GenreSeqs}
        \cup {Text(toks) : toks \in TokenSeqs}

InitToList ==
    /\ recent = NoFile
    /\ saved = NoFile
    /\ genres = NoFile
    /\ phase = "fetch"
    /\ compare_out = NoReport
    /\ summary_out = NoReport
    /\ compare_run = NotRun
    /\ summary_run = NotRun
    /\ genre_field \in FieldValues
    /\ normalized = <<>>

(* load_required: genres["genres"].apply(to_list) *)
Normalize ==
    /\ Len(normalized) = 0
    /\ normalized' = <<to_list(genre_field)>>
    /\ UNCHANGED <<recent, saved, genres, phase, compare_out, summary_out,
                   compare_run, summary_run, genre_field>>

(* explode_with_genres: merged["genres"].apply(to_list), on what
   load_required left *)
Renormalize ==
    /\ Len(normalized) = 1
    /\ normalized' = Append(normalized, to_list(normalized[1]))
    /\ UNCHANGED <<recent, saved, genres, phase, compare_out, summary_out,
                   compare_run, summary_run, genre_field>>

NextToList == Normalize \/ Renormalize

SpecToList == InitToList /\ [][NextToList]_vars

-----------------------------------------------------------------------------
(* The texts that are literals, by the grammar
      literal  ::= string | number | None | "[" "]" | "[" elements "]"
      elements ::= literal | literal "," | literal "," elements          *)

IsAtom(tok) ==
    \/ tok.t = "strlit"
    \/ tok.t = "numlit"
    \/ tok.t = "name" /\ tok.val = "None"

RECURSIVE IsLiteral(_), IsElements(_), IsListDisplay(_)
IsListDisplay(toks) ==
    /\ Len(toks) >= 2
    /\ toks[1].t = "["
    /\ toks[Len(toks)].t = "]"
    /\ Len(toks) = 2 \/ IsElements(SubSeq(toks, 2, Len(toks) - 1))

IsLiteral(toks) ==
    \/ Len(toks) = 1 /\ IsAtom(toks[1])
    \/ IsListDisplay(toks)

IsElements(toks) ==
    \E k \in 1..Len(toks) :
        /\ IsLiteral(SubSeq(toks, 1, k))
        /\ \/ k = Len(toks)
           \/ /\ toks[k + 1].t = ","
              /\ \/ k + 1 = Len(toks)
                 \/ IsElements(SubSeq(toks, k + 2, Len(toks)))

(* the value is neither a list nor a text that is a list display *)
NoListValue(x) == x.tag # "list" /\ ~(x.tag = "text" /\ IsListDisplay(x.val))

(* C11: to_list returns the empty sequence, and raises nothing, for every
   genre-field value that is not a list and not the text of a list: a missing
   value, a number, a text that does not parse, a text of another literal *)
C11_MalformedGivesNoGenres ==
    Len(normalized) >= 1 /\ NoListValue(genre_field) =>
        normalized[1] = List(<<>>)

(* to_list was applied to a text that opens a list and does not close it *)
C11_Witness ==
    /\ Len(normalized) >= 1
    /\ genre_field.tag = "text"
    /\ Len(genre_field.val) = 2
    /\ genre_field.val[1].t = "["
    /\ genre_field.val[2].t = "strlit"
    /\ NoListValue(genre_field)
    /\ normalized[1] = List(<<>>)

(* C12: to_list gives back the sequence s from the text written for s and
   from s itself, every genre in place and as often as in s, and a second
   to_list changes nothing of what the first returned *)
C12_RoundTripAndIdempotent ==
    /\ Len(normalized) >= 1 =>
          \A g \in GenreSeqs :
              /\ genre_field = Repr(g) => normalized[1] = List(g)
              /\ genre_field = List(g) => normalized[1] = List(g)
    /\ Len(normalized) = 2 => normalized[2] = normalized[1]

(* to_list was applied twice to the text of a sequence that repeats a genre *)
C12_Witness ==
    /\ Len(normalized) = 2
    /\ genre_field = Repr(<<Str("rock"), Str("rock")>>)
    /\ normalized[1] = List(<<Str("rock"), Str("rock")>>)
    /\ normalized[2] = normalized[1]

=============================================================================
